---- MODULE Spec2Model ----
(***************************************************************************)
(* Model of tomato: the command line client (src/tomato/tomato/__init__.py)*)
(* talking to the tomato daemon, and the BioLogic driver                   *)
(* (src/tomato/drivers/biologic/main.py).                                  *)
(*                                                                         *)
(* SpecPipeline: clients running pipeline_load / pipeline_eject /          *)
(*   pipeline_ready against one daemon, with the scheduler dispatching and *)
(*   completing jobs concurrently.                                         *)
(* SpecDriver: worker processes calling the driver functions against one   *)
(*   device guarded by one lock file.                                      *)
(* SpecQueue: the scheduler, the job queue and the pipeline registry of    *)
(*   the daemon with two pipelines and three jobs.                         *)
(* SpecConfig: get_pipelines applied to a settings file.                   *)
(***************************************************************************)
EXTENDS Integers, Sequences, FiniteSets, TLC

\* -------------------------------------------------------------------------
\* Bounds
\* -------------------------------------------------------------------------
\* commands the clients issue in one run
MaxCmds == 3
\* largest value of the `retries` argument
MaxRetries == 2
\* largest number of techniques in a payload
MaxTechs == 2
\* largest number of devices in a settings file
MaxDevs == 2
\* largest number of device entries of one pipeline in a settings file
MaxBinds == 2
\* largest number of pipelines in a settings file
MaxPips == 1

\* -------------------------------------------------------------------------
\* Values
\* -------------------------------------------------------------------------
\* Python None
None == "None"
\* sample identifiers given on the command line
Samples == {"s1", "s2"}
\* names in the daemon's pipeline map
PipNames == {"p1"}
\* pipeline names a user may type: the known ones and an unknown one
ArgNames == PipNames \cup {"px"}
\* concurrently running command line clients
Clients == {"c1", "c2"}
\* jobs that may be submitted to the queue
Jobs == {"j1", "j2"}
\* pipelines and jobs of the runs that follow the scheduler only
QueuePips == {"p1", "p2"}
QueueJobs == {"j1", "j2", "j3"}
\* commands of the command line: `tomato pipeline load|eject|ready` and
\* `tomato stop`
Ops == {"load", "eject", "ready", "stop"}

VARIABLES
    \* ---- daemon and client state (SpecPipeline) ----
    pips,      \* daemon: pipeline name -> [sampleid, ready, jobid]
    queue,     \* daemon: submitted jobs in submission order
    jstat,     \* daemon: job -> "new" (not submitted) | "queued" | "running" |
               \*   "complete" | "errored" | "cancelled"
    qres,      \* outcome of the last cancel request: [job, err]
    hwdone,    \* daemon: pipelines whose driver reported the non-running
               \*   state for the job they run
    cpc,       \* client: position in its command
    ccmd,      \* client: the command being run [op, pipeline, sampleid]
    cstat,     \* client: the Reply returned by status()
    creq,      \* client: the "pipeline" request it has sent
    creply,    \* client: the Reply the command returned
    ncmds,     \* commands issued so far by all clients
    up,        \* daemon: TRUE until it begins shutdown, answers nothing after
    \* ---- driver state (SpecDriver) ----
    lock,      \* holder of the FileLock on lockpath, or None
    session,   \* process -> TRUE while the device holds a session it opened
    hwstate,   \* channel state the hardware reports
    dpc,       \* process: position in the driver function it runs
    dfn,       \* process: the driver function it runs, or None
    dretries,  \* process: the `retries` argument
    dattempt,  \* process: loop iterations started in the current call
    dcalls,    \* process: api.Connect / api.Disconnect calls made in the current call
    dfirstok,  \* process: iteration of the first successful api call, 0 if none
    dlastok,   \* process: TRUE iff the last api call of the current call succeeded
    dresult,   \* process: outcome of the last finished call
    dntechs,   \* process: techniques in the payload of start_job, else 0
    dlog,      \* process: calls of the device API made in the current call
    \* ---- settings (SpecConfig) ----
    cfg,       \* the parsed settings file: [devices, pipelines]
    cres       \* outcome of get_pipelines on cfg

pvars == <<pips, queue, jstat, qres, hwdone, cpc, ccmd, cstat, creq, creply, ncmds, up>>
dvars == <<lock, session, hwstate, dpc, dfn, dretries, dattempt, dcalls,
           dfirstok, dlastok, dresult, dntechs, dlog>>
cvars == <<cfg, cres>>
vars == <<pvars, dvars, cvars>>

\* =========================================================================
\* Client and daemon
\* =========================================================================

\* tomato.models.Pipeline as far as the client reads and writes it
EmptyPipeline == [sampleid |-> None, ready |-> FALSE, jobid |-> None]

\* tomato.models.Reply
Reply(success, msg, data) == [success |-> success, msg |-> msg, data |-> data]

\* no Reply yet
NoReply == Reply(FALSE, None, None)
\* no command yet
NoCmd == [op |-> None, pipeline |-> None, sampleid |-> None]
\* no request sent
NoReq == [cmd |-> None, pipeline |-> None, params |-> None]

\* outcome of the part of a command between status() and the second request
Return(rep) == [kind |-> "return", reply |-> rep]
Send(pipeline, params) ==
    [kind |-> "send", req |-> [cmd |-> "pipeline", pipeline |-> pipeline, params |-> params]]

\* status(): the daemon answered within the timeout
status_ok(data) == Reply(TRUE, "running", data)
\* status(): the poll timed out
status_timeout == Reply(FALSE, "not running", None)

\* pipeline_load without the test of pip.sampleid
pipeline_load_nocheck(stat, pipeline, sampleid) ==
    IF ~stat.success THEN Return(stat)
    ELSE IF pipeline \notin DOMAIN stat.data
        THEN Return(Reply(FALSE, "not found", None))
    ELSE Send(pipeline, [sampleid |-> sampleid])

\* pipeline_load, from the status reply to the return or the send
pipeline_load(stat, pipeline, sampleid) ==
    IF ~stat.success THEN Return(stat)
    ELSE IF pipeline \notin DOMAIN stat.data
        THEN Return(Reply(FALSE, "not found", None))
    ELSE IF stat.data[pipeline].sampleid # None
        THEN Return(Reply(FALSE, "not empty", stat.data[pipeline]))
    ELSE Send(pipeline, [sampleid |-> sampleid])

\* pipeline_eject without the test of pip.jobid
pipeline_eject_nocheck(stat, pipeline) ==
    IF ~stat.success THEN Return(stat)
    ELSE IF pipeline \notin DOMAIN stat.data
        THEN Return(Reply(FALSE, "not found", stat.data))
    ELSE IF stat.data[pipeline].sampleid = None
        THEN Return(Reply(TRUE, "already empty", stat.data[pipeline]))
    ELSE Send(pipeline, [sampleid |-> None, ready |-> FALSE])

\* pipeline_eject, from the status reply to the return or the send
pipeline_eject(stat, pipeline) ==
    IF ~stat.success THEN Return(stat)
    ELSE IF pipeline \notin DOMAIN stat.data
        THEN Return(Reply(FALSE, "not found", stat.data))
    ELSE IF stat.data[pipeline].sampleid = None
        THEN Return(Reply(TRUE, "already empty", stat.data[pipeline]))
    ELSE IF stat.data[pipeline].jobid # None
        THEN Return(Reply(FALSE, "cannot eject running", stat.data[pipeline]))
    ELSE Send(pipeline, [sampleid |-> None, ready |-> FALSE])

\* pipeline_ready, from the status reply to the return or the send
pipeline_ready(stat, pipeline) ==
    IF ~stat.success THEN Return(stat)
    ELSE IF pipeline \notin DOMAIN stat.data
        THEN Return(Reply(FALSE, "not found", stat.data))
    ELSE IF stat.data[pipeline].ready
        THEN Return(Reply(TRUE, "already ready", stat.data[pipeline]))
    ELSE IF stat.data[pipeline].jobid # None
        THEN Return(Reply(FALSE, "cannot ready running", stat.data[pipeline]))
    ELSE Send(pipeline, [ready |-> TRUE])

\* stop, from the status reply to the return or the send
stop(stat) ==
    IF ~stat.success THEN Return(stat)
    ELSE [kind |-> "send", req |-> [cmd |-> "stop", pipeline |-> None, params |-> None]]

\* the Reply each command builds from the daemon's answer to its request
final_reply(op, msg) ==
    IF op = "load" THEN Reply(TRUE, "loaded", msg.data)
    ELSE IF op = "eject" THEN Reply(TRUE, "ejected", msg.data)
    ELSE IF op = "ready" THEN Reply(TRUE, "set ready", msg.data)
    ELSE IF msg.msg = "stop" THEN Reply(TRUE, "instructed to stop", None)
    ELSE Reply(FALSE, "unknown error", msg.data)

\* the command dispatch of the command line
command(op, stat, pipeline, sampleid) ==
    IF op = "load" THEN pipeline_load(stat, pipeline, sampleid)
    ELSE IF op = "eject" THEN pipeline_eject(stat, pipeline)
    ELSE IF op = "ready" THEN pipeline_ready(stat, pipeline)
    ELSE stop(stat)

\* ---- the daemon's Pipeline Registry -------------------------------------
\* The daemon is described by the design document only (4.2 Pipeline
\* Registry, 4.4 Scheduler, 4.6 Command Service, 6 External Interfaces): a
\* "pipeline" request carries a parameter set {sampleid?, ready?} and is
\* dispatched to the Registry operation it stands for.

\* Registry.load(name, sampleid)
registry_load(ps, name, sampleid) ==
    IF name \notin DOMAIN ps THEN [pips |-> ps, err |-> "NotFoundError"]
    ELSE IF ps[name].sampleid # None THEN [pips |-> ps, err |-> "ConflictError"]
    ELSE [pips |-> [ps EXCEPT ![name].sampleid = sampleid], err |-> None]

\* Registry.eject without the test of jobid
registry_eject_nocheck(ps, name) ==
    IF name \notin DOMAIN ps THEN [pips |-> ps, err |-> "NotFoundError"]
    ELSE [pips |-> [ps EXCEPT ![name].sampleid = None, ![name].ready = FALSE],
          err |-> None]

\* Registry.eject(name)
registry_eject(ps, name) ==
    IF name \notin DOMAIN ps THEN [pips |-> ps, err |-> "NotFoundError"]
    ELSE IF ps[name].jobid # None THEN [pips |-> ps, err |-> "ConflictError"]
    ELSE [pips |-> [ps EXCEPT ![name].sampleid = None, ![name].ready = FALSE],
          err |-> None]

\* Registry.mark_ready(name, ready)
registry_mark_ready(ps, name, ready) ==
    IF name \notin DOMAIN ps THEN [pips |-> ps, err |-> "NotFoundError"]
    ELSE IF ps[name].jobid # None THEN [pips |-> ps, err |-> "ConflictError"]
    ELSE [pips |-> [ps EXCEPT ![name].ready = ready], err |-> None]

\* the Command Service's handling of a "pipeline" request
daemon_pipeline(ps, req) ==
    LET params == req.params
        name == req.pipeline
    IN  IF "sampleid" \in DOMAIN params /\ params.sampleid # None
            THEN registry_load(ps, name, params.sampleid)
        ELSE IF "sampleid" \in DOMAIN params
            THEN registry_eject(ps, name)
        ELSE registry_mark_ready(ps, name, params.ready)

\* the Reply the Command Service sends back for a "pipeline" request
daemon_reply(res, name) ==
    Reply(res.err = None,
          IF res.err = None THEN "pipeline" ELSE res.err,
          IF name \in DOMAIN res.pips THEN res.pips[name] ELSE None)

\* a pipeline a queued job may be dispatched to
eligible(p) == p.ready /\ p.jobid = None /\ p.sampleid # None

\* the queued jobs in submission order
queued == SelectSeq(queue, LAMBDA j : jstat[j] = "queued")

\* the device tags of a pipeline
tags(p) == IF p = "p1" THEN {"a"} ELSE {"a", "b"}

\* the device tag the payload of a job requires
needs(j) == IF j = "j2" THEN "b" ELSE "a"

\* the pipeline's device/tag set satisfies the job's resource requirements
satisfies(p, j) == needs(j) \in tags(p)

\* the queued jobs pipeline p satisfies, in submission order
candidates(p) == SelectSeq(queued, LAMBDA j : satisfies(p, j))

\* the job a tick gives pipeline p, taken from the end of the queue
next_job_last(p) == candidates(p)[Len(candidates(p))]

\* the job a tick gives pipeline p: the earliest-submitted candidate
next_job(p) == Head(candidates(p))

\* the job record after dispatch, left as it was
mark_running_skip(js, j) == js

\* the job record after dispatch
mark_running(js, j) == [js EXCEPT ![j] = "running"]

\* the pipeline after its job ended, taken out of the ready state
release_unready(ps, p) == [ps EXCEPT ![p].jobid = None, ![p].ready = FALSE]

\* the pipeline after its job ended: occupancy is cleared, the pipeline
\* stays loaded and ready
release(ps, p) == [ps EXCEPT ![p].jobid = None]

\* Job Queue cancel(jobid) without the test of the status
queue_cancel_any(js, j) ==
    IF js[j] = "new" THEN [jstat |-> js, err |-> "NotFoundError"]
    ELSE [jstat |-> [js EXCEPT ![j] = "cancelled"], err |-> None]

\* Job Queue cancel(jobid)
queue_cancel(js, j) ==
    IF js[j] = "new" THEN [jstat |-> js, err |-> "NotFoundError"]
    ELSE IF js[j] # "queued" THEN [jstat |-> js, err |-> "ConflictError"]
    ELSE [jstat |-> [js EXCEPT ![j] = "cancelled"], err |-> None]

\* no cancel request yet
NoCancel == [job |-> None, err |-> None]

\* the parameter sets of the "pipeline" requests the clients send
RequestParams ==
    {[sampleid |-> s] : s \in Samples} \cup
    {[sampleid |-> None, ready |-> FALSE], [ready |-> TRUE]}

\* ---- actions -------------------------------------------------------------

\* a user starts a command: status() sends its request
Invoke(c, op, pipeline, sampleid) ==
    /\ cpc[c] \in {"idle", "done"}
    /\ ncmds < MaxCmds
    /\ ncmds' = ncmds + 1
    /\ ccmd' = [ccmd EXCEPT ![c] = [op |-> op,
                                    pipeline |-> IF op = "stop" THEN None ELSE pipeline,
                                    sampleid |-> IF op = "load" THEN sampleid ELSE None]]
    /\ cpc' = [cpc EXCEPT ![c] = "status_sent"]
    /\ creply' = [creply EXCEPT ![c] = NoReply]
    /\ creq' = [creq EXCEPT ![c] = NoReq]
    /\ cstat' = [cstat EXCEPT ![c] = NoReply]
    /\ UNCHANGED <<pips, queue, jstat, qres, hwdone, up, dvars, cvars>>

\* the daemon answers the status request with its pipeline map
DaemonStatus(c) ==
    /\ up
    /\ cpc[c] = "status_sent"
    /\ cstat' = [cstat EXCEPT ![c] = status_ok(pips)]
    /\ cpc' = [cpc EXCEPT ![c] = "status_done"]
    /\ UNCHANGED <<pips, queue, jstat, qres, hwdone, ccmd, creq, creply, ncmds, up, dvars, cvars>>

\* the poll in status() times out
StatusTimeout(c) ==
    /\ cpc[c] = "status_sent"
    /\ cstat' = [cstat EXCEPT ![c] = status_timeout]
    /\ cpc' = [cpc EXCEPT ![c] = "status_done"]
    /\ UNCHANGED <<pips, queue, jstat, qres, hwdone, ccmd, creq, creply, ncmds, up, dvars, cvars>>

\* the command inspects the status reply and returns
ClientReturn(c) ==
    LET out == command(ccmd[c].op, cstat[c], ccmd[c].pipeline, ccmd[c].sampleid)
    IN  /\ cpc[c] = "status_done"
        /\ out.kind = "return"
        /\ creply' = [creply EXCEPT ![c] = out.reply]
        /\ cpc' = [cpc EXCEPT ![c] = "done"]
        /\ UNCHANGED <<pips, queue, jstat, qres, hwdone, ccmd, cstat, creq, ncmds, up, dvars, cvars>>

\* the command inspects the status reply and sends its "pipeline" request
ClientSend(c) ==
    LET out == command(ccmd[c].op, cstat[c], ccmd[c].pipeline, ccmd[c].sampleid)
    IN  /\ cpc[c] = "status_done"
        /\ out.kind = "send"
        /\ creq' = [creq EXCEPT ![c] = out.req]
        /\ cpc' = [cpc EXCEPT ![c] = "pipeline_sent"]
        /\ UNCHANGED <<pips, queue, jstat, qres, hwdone, ccmd, cstat, creply, ncmds, up, dvars, cvars>>

\* the daemon serves the "pipeline" request; the command returns
DaemonPipeline(c) ==
    LET res == daemon_pipeline(pips, creq[c])
    IN  /\ up
        /\ cpc[c] = "pipeline_sent"
        /\ creq[c].cmd = "pipeline"
        /\ pips' = res.pips
        /\ creply' = [creply EXCEPT ![c] =
                         final_reply(ccmd[c].op, daemon_reply(res, creq[c].pipeline))]
        /\ cpc' = [cpc EXCEPT ![c] = "done"]
        /\ UNCHANGED <<queue, jstat, qres, hwdone, ccmd, cstat, creq, ncmds, up, dvars, cvars>>

\* the daemon serves the "stop" request: it acknowledges and begins
\* shutdown; the command returns
DaemonStop(c) ==
    /\ up
    /\ cpc[c] = "pipeline_sent"
    /\ creq[c].cmd = "stop"
    /\ up' = FALSE
    /\ creply' = [creply EXCEPT ![c] = final_reply(ccmd[c].op, Reply(TRUE, "stop", None))]
    /\ cpc' = [cpc EXCEPT ![c] = "done"]
    /\ UNCHANGED <<pips, queue, jstat, qres, hwdone, ccmd, cstat, creq, ncmds, dvars, cvars>>

\* a job is submitted to the queue
Submit(j) ==
    /\ up
    /\ jstat[j] = "new"
    /\ jstat' = [jstat EXCEPT ![j] = "queued"]
    /\ queue' = Append(queue, j)
    /\ UNCHANGED <<pips, qres, hwdone, cpc, ccmd, cstat, creq, creply, ncmds, up, dvars, cvars>>

\* scheduler tick: an eligible pipeline is paired with the first queued job
\* it satisfies
Dispatch(p) ==
    /\ up
    /\ eligible(pips[p])
    /\ candidates(p) # <<>>
    /\ LET j == next_job(p)
       IN  /\ jstat' = mark_running(jstat, j)
           /\ pips' = [pips EXCEPT ![p].jobid = j]
    /\ UNCHANGED <<queue, qres, hwdone, cpc, ccmd, cstat, creq, creply, ncmds, up, dvars, cvars>>

\* the driver reports the non-running state for the job pipeline p runs
Report(p) ==
    /\ up
    /\ pips[p].jobid # None
    /\ p \notin hwdone
    /\ hwdone' = hwdone \cup {p}
    /\ UNCHANGED <<pips, queue, jstat, qres, cpc, ccmd, cstat, creq, creply, ncmds, up, dvars, cvars>>

\* scheduler tick: the hardware has reported ready for a running job
Complete(p) ==
    /\ up
    /\ pips[p].jobid # None
    /\ p \in hwdone
    /\ jstat' = [jstat EXCEPT ![pips[p].jobid] = "complete"]
    /\ pips' = release(pips, p)
    /\ hwdone' = hwdone \ {p}
    /\ UNCHANGED <<queue, qres, cpc, ccmd, cstat, creq, creply, ncmds, up, dvars, cvars>>

\* a stop request or an executor error ends a running job
Halt(p, how) ==
    /\ up
    /\ pips[p].jobid # None
    /\ jstat' = [jstat EXCEPT ![pips[p].jobid] = how]
    /\ pips' = release(pips, p)
    /\ hwdone' = hwdone \ {p}
    /\ UNCHANGED <<queue, qres, cpc, ccmd, cstat, creq, creply, ncmds, up, dvars, cvars>>

\* `ketchup cancel jobid`: the daemon answers the status query and the Job
\* Queue serves the cancel
Cancel(j) ==
    /\ up
    /\ LET r == queue_cancel(jstat, j)
       IN  /\ jstat' = r.jstat
           /\ qres' = [job |-> j, err |-> r.err]
    /\ UNCHANGED <<pips, queue, hwdone, cpc, ccmd, cstat, creq, creply, ncmds, up, dvars, cvars>>

\* the daemon serves a "pipeline" request of some client
ServeRequest(p, params) ==
    /\ up
    /\ pips' = daemon_pipeline(pips, [cmd |-> "pipeline", pipeline |-> p,
                                      params |-> params]).pips
    /\ pips' # pips
    /\ UNCHANGED <<queue, jstat, qres, hwdone, cpc, ccmd, cstat, creq, creply, ncmds, up, dvars, cvars>>

InitQueue ==
    /\ pips = [p \in QueuePips |-> EmptyPipeline]
    /\ queue = <<>>
    /\ jstat = [j \in QueueJobs |-> "new"]
    /\ qres = NoCancel
    /\ hwdone = {}
    /\ up = TRUE
    /\ cpc = [c \in Clients |-> "idle"]
    /\ ccmd = [c \in Clients |-> NoCmd]
    /\ cstat = [c \in Clients |-> NoReply]
    /\ creq = [c \in Clients |-> NoReq]
    /\ creply = [c \in Clients |-> NoReply]
    /\ ncmds = 0

InitPipeline ==
    /\ pips = [p \in PipNames |-> EmptyPipeline]
    /\ queue = <<>>
    /\ jstat = [j \in Jobs |-> "new"]
    /\ qres = NoCancel
    /\ hwdone = {}
    /\ up = TRUE
    /\ cpc = [c \in Clients |-> "idle"]
    /\ ccmd = [c \in Clients |-> NoCmd]
    /\ cstat = [c \in Clients |-> NoReply]
    /\ creq = [c \in Clients |-> NoReq]
    /\ creply = [c \in Clients |-> NoReply]
    /\ ncmds = 0

\* =========================================================================
\* Driver
\* =========================================================================

\* worker processes sharing the device
Procs == {"w1", "w2"}
\* channel states the hardware may report
HwStates == {"STOP", "RUN", "PAUSE"}

\* parameters of safe_api_connect and of safe_api_disconnect:
\* (api, address | id_, lockpath, retries, time_sleep, logger)
SafeApiParams == 6
\* positional arguments the driver functions pass to them:
\* (api, address | id_, lockpath, retries, time_sleep)
SafeApiArgs == 5

\* a Python call binds iff every parameter without a default gets an argument
call_binds(nargs, nparams) == nargs = nparams

\* a call of the device API: its name, the arguments that matter and
\* whether it returned (ok) or raised
ApiCall(api, args, ok) == [api |-> api, args |-> args, ok |-> ok]

\* how a function call ends
NoResult == [kind |-> "none"]
Returned(v) == [kind |-> "return", value |-> v]
Raised(e) == [kind |-> "raise", exc |-> e]

\* get_status with ready preset to True and never raising
get_status_tail_preset(bound, state) ==
    IF bound /\ state \in {"RUN"} THEN Returned([ready |-> FALSE, channel_state |-> state])
    ELSE Returned([ready |-> TRUE, channel_state |-> state])

\* get_status after its try block: `bound` says whether device_info and
\* channel_info were assigned, `state` is channel_info.state
get_status_tail(bound, state) ==
    IF ~bound THEN Raised("UnboundLocalError")
    ELSE IF state \in {"STOP"} THEN Returned([ready |-> TRUE, channel_state |-> state])
    ELSE IF state \in {"RUN"} THEN Returned([ready |-> FALSE, channel_state |-> state])
    ELSE Raised("ValueError")

\* get_data after its try block: `bound` says whether data and device_info
\* were assigned
get_data_tail(bound) ==
    IF ~bound THEN Raised("UnboundLocalError") ELSE Returned("data")

\* a driver function is called: everything the previous call left is reset
begin(p, fn, n) ==
    /\ dpc[p] = "idle"
    /\ dfn' = [dfn EXCEPT ![p] = fn]
    /\ dretries' = [dretries EXCEPT ![p] = n]
    /\ dattempt' = [dattempt EXCEPT ![p] = 0]
    /\ dcalls' = [dcalls EXCEPT ![p] = 0]
    /\ dfirstok' = [dfirstok EXCEPT ![p] = 0]
    /\ dlastok' = [dlastok EXCEPT ![p] = FALSE]
    /\ dlog' = [dlog EXCEPT ![p] = <<>>]

\* get_status: the call of safe_api_connect does not bind, the TypeError is
\* caught by the except clause, and the metadata block reads device_info
get_status(p) ==
    /\ begin(p, "get_status", 0)
    /\ ~call_binds(SafeApiArgs, SafeApiParams)
    /\ dresult' = [dresult EXCEPT ![p] = get_status_tail(FALSE, hwstate)]
    /\ dntechs' = [dntechs EXCEPT ![p] = 0]
    /\ UNCHANGED <<lock, session, hwstate, dpc, pvars, cvars>>

\* get_data: as get_status; parse_raw_data is called with unassigned data
get_data(p) ==
    /\ begin(p, "get_data", 0)
    /\ ~call_binds(SafeApiArgs, SafeApiParams)
    /\ dresult' = [dresult EXCEPT ![p] = get_data_tail(FALSE)]
    /\ dntechs' = [dntechs EXCEPT ![p] = 0]
    /\ UNCHANGED <<lock, session, hwstate, dpc, pvars, cvars>>

\* start_job: the TypeError is caught and the timestamp is returned
start_job(p, ntechs) ==
    /\ begin(p, "start_job", 0)
    /\ ~call_binds(SafeApiArgs, SafeApiParams)
    /\ dresult' = [dresult EXCEPT ![p] = Returned("timestamp")]
    /\ dntechs' = [dntechs EXCEPT ![p] = ntechs]
    /\ UNCHANGED <<lock, session, hwstate, dpc, pvars, cvars>>

\* stop_job: the TypeError is caught and the timestamp is returned
stop_job(p) ==
    /\ begin(p, "stop_job", 0)
    /\ ~call_binds(SafeApiArgs, SafeApiParams)
    /\ dresult' = [dresult EXCEPT ![p] = Returned("timestamp")]
    /\ dntechs' = [dntechs EXCEPT ![p] = 0]
    /\ UNCHANGED <<lock, session, hwstate, dpc, pvars, cvars>>

\* safe_api_connect is called with all six arguments
safe_api_connect(p, n) ==
    /\ begin(p, "connect", n)
    /\ ~session[p]
    /\ dpc' = [dpc EXCEPT ![p] = "loop"]
    /\ dresult' = [dresult EXCEPT ![p] = NoResult]
    /\ dntechs' = [dntechs EXCEPT ![p] = 0]
    /\ UNCHANGED <<lock, session, hwstate, pvars, cvars>>

\* safe_api_disconnect is called with all six arguments and the id_ of an
\* open session
safe_api_disconnect(p, n) ==
    /\ begin(p, "disconnect", n)
    /\ session[p]
    /\ dpc' = [dpc EXCEPT ![p] = "loop"]
    /\ dresult' = [dresult EXCEPT ![p] = NoResult]
    /\ dntechs' = [dntechs EXCEPT ![p] = 0]
    /\ UNCHANGED <<lock, session, hwstate, pvars, cvars>>

\* `for _ in range(retries)` starts an iteration and FileLock is acquired
LockAcquire(p) ==
    /\ dpc[p] = "loop"
    /\ dattempt[p] < dretries[p]
    /\ lock = None
    /\ lock' = p
    /\ dattempt' = [dattempt EXCEPT ![p] = @ + 1]
    /\ dpc' = [dpc EXCEPT ![p] = "locked"]
    /\ UNCHANGED <<session, hwstate, dfn, dretries, dcalls, dfirstok, dlastok,
                   dresult, dntechs, dlog, pvars, cvars>>

\* `for _ in range(retries)` starts an iteration and FileLock times out
\* after 60 s because another process holds the lock: filelock.Timeout is
\* caught by the except clause
LockTimeout(p) ==
    /\ dpc[p] = "loop"
    /\ dattempt[p] < dretries[p]
    /\ lock \notin {None, p}
    /\ dattempt' = [dattempt EXCEPT ![p] = @ + 1]
    /\ dpc' = [dpc EXCEPT ![p] = "sleep"]
    /\ UNCHANGED <<lock, session, hwstate, dfn, dretries, dcalls, dfirstok,
                   dlastok, dresult, dntechs, dlog, pvars, cvars>>

\* the api call made under the lock is counted
api_called(p, ok) ==
    /\ dlog' = [dlog EXCEPT ![p] =
                   Append(@, ApiCall(IF dfn[p] = "connect" THEN "Connect"
                                     ELSE "Disconnect", <<>>, ok))]
    /\ dcalls' = [dcalls EXCEPT ![p] = @ + 1]
    /\ dlastok' = [dlastok EXCEPT ![p] = ok]
    /\ dfirstok' = [dfirstok EXCEPT ![p] =
                       IF ok /\ @ = 0 THEN dattempt[p] ELSE @]

\* safe_api_connect without the return statement: the loop goes on
connect_noreturn(p) ==
    /\ dpc' = [dpc EXCEPT ![p] = "loop"]
    /\ UNCHANGED dresult

\* safe_api_connect, api.Connect succeeds: `return id_, device_info` leaves
\* the with block, which releases the lock
connect_return(p) ==
    /\ dpc' = [dpc EXCEPT ![p] = "idle"]
    /\ dresult' = [dresult EXCEPT ![p] = Returned("session")]

\* the with block is left with the lock still held
filelock_exit_keep(p) == UNCHANGED lock

\* `with FileLock(lockpath, timeout=60)` is left, by falling off its end, by
\* `return` or by an exception of the api call: the context manager
\* releases the lock
filelock_exit(p) == lock' = None

\* api.Connect(address) succeeds
ConnectOk(p) ==
    /\ dpc[p] = "locked"
    /\ dfn[p] = "connect"
    /\ api_called(p, TRUE)
    /\ session' = [session EXCEPT ![p] = TRUE]
    /\ filelock_exit(p)
    /\ connect_return(p)
    /\ UNCHANGED <<hwstate, dfn, dretries, dattempt, dntechs, pvars, cvars>>

\* api.Connect(address) raises: the with block releases the lock and the
\* except clause sleeps
ConnectFail(p) ==
    /\ dpc[p] = "locked"
    /\ dfn[p] = "connect"
    /\ api_called(p, FALSE)
    /\ filelock_exit(p)
    /\ dpc' = [dpc EXCEPT ![p] = "sleep"]
    /\ UNCHANGED <<session, hwstate, dfn, dretries, dattempt, dresult, dntechs,
                   pvars, cvars>>

\* safe_api_disconnect, api.Disconnect succeeds: the with block ends, the try
\* statement ends and the for loop goes on
disconnect_continue(p) ==
    /\ dpc' = [dpc EXCEPT ![p] = "loop"]
    /\ UNCHANGED dresult

\* api.Disconnect(id_) succeeds
DisconnectOk(p) ==
    /\ dpc[p] = "locked"
    /\ dfn[p] = "disconnect"
    /\ api_called(p, TRUE)
    /\ session' = [session EXCEPT ![p] = FALSE]
    /\ filelock_exit(p)
    /\ disconnect_continue(p)
    /\ UNCHANGED <<hwstate, dfn, dretries, dattempt, dntechs, pvars, cvars>>

\* api.Disconnect(id_) raises: the with block releases the lock and the
\* except clause sleeps
DisconnectFail(p) ==
    /\ dpc[p] = "locked"
    /\ dfn[p] = "disconnect"
    /\ api_called(p, FALSE)
    /\ filelock_exit(p)
    /\ dpc' = [dpc EXCEPT ![p] = "sleep"]
    /\ UNCHANGED <<session, hwstate, dfn, dretries, dattempt, dresult, dntechs,
                   pvars, cvars>>

\* time.sleep(time_sleep) ends and the for loop goes on
SleepDone(p) ==
    /\ dpc[p] = "sleep"
    /\ dpc' = [dpc EXCEPT ![p] = "loop"]
    /\ UNCHANGED <<lock, session, hwstate, dfn, dretries, dattempt, dcalls,
                   dfirstok, dlastok, dresult, dntechs, dlog, pvars, cvars>>

\* the for loop is exhausted: `raise Exception("Failed to ...")`
LoopExhausted(p) ==
    /\ dpc[p] = "loop"
    /\ dattempt[p] = dretries[p]
    /\ dpc' = [dpc EXCEPT ![p] = "idle"]
    /\ dresult' = [dresult EXCEPT ![p] = Raised("Exception")]
    /\ UNCHANGED <<lock, session, hwstate, dfn, dretries, dattempt, dcalls,
                   dfirstok, dlastok, dntechs, dlog, pvars, cvars>>

\* the channel starts, stops or pauses
HwChange(s) ==
    /\ hwstate # s
    /\ hwstate' = s
    /\ UNCHANGED <<lock, session, dpc, dfn, dretries, dattempt, dcalls,
                   dfirstok, dlastok, dresult, dntechs, dlog, pvars, cvars>>

InitDriver ==
    /\ lock = None
    /\ session = [p \in Procs |-> FALSE]
    /\ hwstate = "STOP"
    /\ dpc = [p \in Procs |-> "idle"]
    /\ dfn = [p \in Procs |-> None]
    /\ dretries = [p \in Procs |-> 0]
    /\ dattempt = [p \in Procs |-> 0]
    /\ dcalls = [p \in Procs |-> 0]
    /\ dfirstok = [p \in Procs |-> 0]
    /\ dlastok = [p \in Procs |-> FALSE]
    /\ dresult = [p \in Procs |-> NoResult]
    /\ dntechs = [p \in Procs |-> 0]
    /\ dlog = [p \in Procs |-> <<>>]

\* =========================================================================
\* Settings: get_pipelines
\* =========================================================================
\* A name is a sequence of pieces, "*" being the wildcard character.

\* device names of a settings file
DevNames == {"a", "b"}
\* channel lists a device may have
ChannelLists == {<<2>>, <<2, 1>>}
\* channels a pipeline's device entry may give
BindChannels == {1}
\* pipeline names: one without and one with the wildcard
PipelineNames == {<<"p">>, <<"p", "*">>}

\* the sequences over S of length at most n
SeqsUpTo(S, n) == UNION {[1..k -> S] : k \in 0..n}

\* the "devices" section: devices with distinct names
DeviceLists ==
    {ds \in SeqsUpTo([name : DevNames, channels : ChannelLists], MaxDevs) :
        \A i, k \in DOMAIN ds : i # k => ds[i].name # ds[k].name}

\* a device entry of a pipeline, with or without the "channel" key
Bindings ==
    [name : DevNames, tag : {"t"}] \cup
    [name : DevNames, tag : {"t"}, channel : BindChannels]

\* the "pipelines" section
PipelineLists ==
    SeqsUpTo([name : PipelineNames, devices : SeqsUpTo(Bindings, MaxBinds)], MaxPips)

\* the settings files
Configs == [devices : DeviceLists, pipelines : PipelineLists]

\* `"*" in pip["name"]`
HasWildcard(name) == \E i \in DOMAIN name : name[i] = "*"

\* name.replace("*", f"{ch}") leaving the name as it is
str_replace_keep(name, ch) == name

\* name.replace("*", f"{ch}")
str_replace(name, ch) ==
    [i \in DOMAIN name |-> IF name[i] = "*" THEN ToString(ch) ELSE name[i]]

\* `for dpars in devices: if dpars["name"] == ppars["name"]: break` over a
\* non-empty list: dpars is the first device of that name, and the last
\* device of the list if the loop ends without break
find_device(devices, name) ==
    LET hits == {i \in DOMAIN devices : devices[i].name = name}
    IN  IF hits # {} THEN devices[CHOOSE i \in hits : \A k \in hits : i <= k]
        ELSE devices[Len(devices)]

\* dev: the device without its channels, with the entry's tag
device_entry(dpars, ppars) == [name |-> dpars.name, tag |-> ppars.tag]

\* dev with dev["channel"] = ch
with_channel(dev, ch) == [name |-> dev.name, tag |-> dev.tag, channel |-> ch]

\* the branch of a pipeline with a wildcard in its name; over an empty
\* device list dpars is never assigned
expand_wildcard(devices, pip) ==
    IF Len(pip.devices) # 1 THEN Raised("AssertionError")
    ELSE IF devices = <<>> THEN Raised("UnboundLocalError")
    ELSE LET ppars == pip.devices[1]
             dpars == find_device(devices, ppars.name)
             dev == device_entry(dpars, ppars)
         IN  Returned([i \in 1..Len(dpars.channels) |->
                 [name |-> str_replace(pip.name, dpars.channels[i]),
                  devices |-> <<with_channel(dev, dpars.channels[i])>>]])

\* one device entry of a pipeline without wildcard, the channel taken as
\* given
bind_explicit_unchecked(devices, pipname, ppars) ==
    IF devices = <<>> THEN Raised("UnboundLocalError")
    ELSE LET dpars == find_device(devices, ppars.name)
             dev == device_entry(dpars, ppars)
         IN  IF "channel" \in DOMAIN ppars
                 THEN Returned(with_channel(dev, ppars.channel))
             ELSE Returned(dev)

\* one device entry of a pipeline without wildcard
bind_explicit(devices, pipname, ppars) ==
    IF devices = <<>> THEN Raised("UnboundLocalError")
    ELSE LET dpars == find_device(devices, ppars.name)
             dev == device_entry(dpars, ppars)
         IN  IF "channel" \in DOMAIN ppars
                 THEN IF \E i \in DOMAIN dpars.channels :
                             dpars.channels[i] = ppars.channel
                          THEN Returned(with_channel(dev, ppars.channel))
                      ELSE Raised("AssertionError")
             ELSE IF HasWildcard(pipname) THEN Returned(dev)
             ELSE Raised("AssertionError")

\* the loop over the device entries of a pipeline without wildcard
RECURSIVE bind_all(_, _, _, _)
bind_all(devices, pipname, entries, devs) ==
    IF entries = <<>> THEN Returned(devs)
    ELSE LET r == bind_explicit(devices, pipname, Head(entries))
         IN  IF r.kind = "raise" THEN r
             ELSE bind_all(devices, pipname, Tail(entries), Append(devs, r.value))

\* the branch of a pipeline without wildcard in its name
expand_explicit(devices, pip) ==
    LET r == bind_all(devices, pip.name, pip.devices, <<>>)
    IN  IF r.kind = "raise" THEN r
        ELSE Returned(<<[name |-> pip.name, devices |-> r.value]>>)

\* the loop over the pipelines
RECURSIVE pipelines_loop(_, _, _)
pipelines_loop(devices, pipelines, ret) ==
    IF pipelines = <<>> THEN Returned(ret)
    ELSE LET pip == Head(pipelines)
             r == IF HasWildcard(pip.name) THEN expand_wildcard(devices, pip)
                  ELSE expand_explicit(devices, pip)
         IN  IF r.kind = "raise" THEN r
             ELSE pipelines_loop(devices, Tail(pipelines), ret \o r.value)

\* get_pipelines on the parsed settings file
get_pipelines(config) == pipelines_loop(config.devices, config.pipelines, <<>>)

\* get_pipelines is called
GetPipelines ==
    /\ cres.kind = "none"
    /\ cres' = get_pipelines(cfg)
    /\ UNCHANGED <<cfg, pvars, dvars>>

\* a settings file without devices and pipelines
NoConfig == [devices |-> <<>>, pipelines |-> <<>>]

InitNoConfig ==
    /\ cfg = NoConfig
    /\ cres = NoResult

InitConfig ==
    /\ cfg \in Configs
    /\ cres = NoResult

Init == InitPipeline /\ InitDriver /\ InitNoConfig

NextPipeline ==
    \/ \E c \in Clients, op \in Ops, pn \in ArgNames, s \in Samples : Invoke(c, op, pn, s)
    \/ \E c \in Clients : DaemonStatus(c)
    \/ \E c \in Clients : StatusTimeout(c)
    \/ \E c \in Clients : ClientReturn(c)
    \/ \E c \in Clients : ClientSend(c)
    \/ \E c \in Clients : DaemonPipeline(c)
    \/ \E c \in Clients : DaemonStop(c)
    \/ \E j \in Jobs : Submit(j)
    \/ \E p \in PipNames : Dispatch(p)
    \/ \E p \in PipNames : Report(p)
    \/ \E p \in PipNames : Complete(p)

SpecPipeline == Init /\ [][NextPipeline]_vars

NextDriver ==
    \/ \E p \in Procs : get_status(p)
    \/ \E p \in Procs : get_data(p)
    \/ \E p \in Procs, n \in 1..MaxTechs : start_job(p, n)
    \/ \E p \in Procs : stop_job(p)
    \/ \E p \in Procs, n \in 1..MaxRetries : safe_api_connect(p, n)
    \/ \E p \in Procs, n \in 1..MaxRetries : safe_api_disconnect(p, n)
    \/ \E p \in Procs : LockAcquire(p)
    \/ \E p \in Procs : LockTimeout(p)
    \/ \E p \in Procs : ConnectOk(p)
    \/ \E p \in Procs : ConnectFail(p)
    \/ \E p \in Procs : DisconnectOk(p)
    \/ \E p \in Procs : DisconnectFail(p)
    \/ \E p \in Procs : SleepDone(p)
    \/ \E p \in Procs : LoopExhausted(p)
    \/ \E s \in HwStates : HwChange(s)

SpecDriver == Init /\ [][NextDriver]_vars

NextQueue ==
    \/ \E j \in QueueJobs : Submit(j)
    \/ \E j \in QueueJobs : Cancel(j)
    \/ \E p \in QueuePips : Dispatch(p)
    \/ \E p \in QueuePips : Report(p)
    \/ \E p \in QueuePips : Complete(p)
    \/ \E p \in QueuePips, how \in {"errored", "cancelled"} : Halt(p, how)
    \/ \E p \in QueuePips, params \in RequestParams : ServeRequest(p, params)

InitScheduler == InitQueue /\ InitDriver /\ InitNoConfig

SpecQueue == InitScheduler /\ [][NextQueue]_vars

\* the scheduler is a periodic control loop: a tick that can dispatch to a
\* pipeline, or complete the job of a pipeline, is not put off forever
FairTicks ==
    \A p \in QueuePips : WF_vars(Dispatch(p)) /\ WF_vars(Complete(p))

\* the jobs that are submitted while progress is checked
LiveJobs == {"j1", "j2"}


NextQueueLive ==
    \/ \E j \in LiveJobs : Submit(j)
    \/ \E j \in QueueJobs : Cancel(j)
    \/ \E p \in QueuePips : Dispatch(p)
    \/ \E p \in QueuePips : Report(p)
    \/ \E p \in QueuePips : Complete(p)
    \/ \E p \in QueuePips, how \in {"errored", "cancelled"} : Halt(p, how)
    \/ \E p \in QueuePips, params \in RequestParams : ServeRequest(p, params)

SpecQueueLive == InitScheduler /\ [][NextQueueLive]_vars /\ FairTicks

NextConfig == GetPipelines

InitSettings == InitPipeline /\ InitDriver /\ InitConfig

SpecConfig == InitSettings /\ [][NextConfig]_vars

\* =========================================================================
\* Properties
\* =========================================================================

\* client c has the status reply of a command on a pipeline the daemon knows
Saw(c) ==
    /\ cstat[c].success
    /\ ccmd[c].pipeline \in DOMAIN cstat[c].data

\* the pipeline record client c saw in its status reply
Seen(c) == cstat[c].data[ccmd[c].pipeline]

\* client c's command returns in this step
Returns(c) == cpc[c] # "done" /\ cpc'[c] = "done"

\* process p has finished a call of fn
Finished(p, fn) == dfn[p] = fn /\ dpc[p] = "idle" /\ dresult[p].kind # "none"

\* ---- C1 -----------------------------------------------------------------
\* C1: in every reachable state, a pipeline whose jobid is set is ready and
\* has a sampleid, whatever load / eject / ready commands were run and
\* however the scheduler's dispatch and completion fall between them.
C1_JobidImpliesReadyAndLoaded ==
    \A p \in PipNames :
        pips[p].jobid # None => pips[p].ready /\ pips[p].sampleid # None

\* an eject command whose request reached the daemon after the scheduler had
\* dispatched a job to the pipeline has returned, and the pipeline is busy
C1_Witness ==
    \E c \in Clients :
        /\ cpc[c] = "done"
        /\ ccmd[c].op = "eject"
        /\ creply[c].msg = "ejected"
        /\ ccmd[c].pipeline \in PipNames
        /\ pips[ccmd[c].pipeline].jobid # None

\* ---- C2 -----------------------------------------------------------------
\* the two clients ran the only two commands of the run, both pipeline_load
\* on pipeline p, both saw p empty in their status reply, and both returned
ConcurrentLoads(p) ==
    /\ ncmds = 2
    /\ \A c \in Clients :
        /\ cpc[c] = "done"
        /\ ccmd[c].op = "load"
        /\ ccmd[c].pipeline = p
        /\ Saw(c)
        /\ Seen(c).sampleid = None

\* C2: when two clients run pipeline_load concurrently on the same empty
\* pipeline, exactly one returns success, the other returns a failure, and
\* the pipeline holds the sampleid of the successful one.
C2_ExactlyOneLoadSucceeds ==
    \A p \in PipNames :
        ConcurrentLoads(p) =>
            \E w \in Clients :
                /\ creply[w].success
                /\ pips[p].sampleid = ccmd[w].sampleid
                /\ \A o \in Clients \ {w} : ~creply[o].success

\* ---- C3 -----------------------------------------------------------------
\* C3: a process holds the lock from its Connect to its Disconnect, so that
\* no process is inside a hardware API call while another process has a
\* session open.
C3_LockHeldConnectToDisconnect ==
    /\ \A p \in Procs : session[p] => lock = p
    /\ \A p, q \in Procs :
        (p # q /\ dpc[p] = "locked") => ~session[q]

\* ---- C4 -----------------------------------------------------------------
\* C4: safe_api_connect stops at the first attempt that succeeds and returns
\* its result (k attempts when the k-th is the first to succeed); it raises
\* only after exactly `retries` attempts, none of which succeeded.  An
\* attempt is one iteration of the loop: the lock is acquired and api.Connect
\* is called, or the lock times out.
C4_ConnectStopsAtFirstSuccess ==
    \A p \in Procs :
        dfn[p] = "connect" =>
            /\ dattempt[p] <= dretries[p]
            /\ dcalls[p] <= dattempt[p]
            /\ dfirstok[p] # 0 =>
                /\ Finished(p, "connect")
                /\ dresult[p].kind = "return"
                /\ dattempt[p] = dfirstok[p]
            /\ Finished(p, "connect") /\ dresult[p].kind = "return" =>
                /\ dfirstok[p] = dattempt[p]
                /\ dlastok[p]
            /\ Finished(p, "connect") /\ dresult[p].kind = "raise" =>
                /\ dattempt[p] = dretries[p]
                /\ dfirstok[p] = 0

\* safe_api_connect has returned a session on its second attempt, after a
\* first api.Connect that failed
C4_Witness ==
    \E p \in Procs :
        /\ Finished(p, "connect")
        /\ dresult[p].kind = "return"
        /\ dattempt[p] = 2
        /\ dcalls[p] = 2
        /\ session[p]

\* ---- C5 -----------------------------------------------------------------
\* C5: safe_api_disconnect stops at the first api.Disconnect that succeeds
\* and returns normally without a further call; it raises only when all
\* `retries` attempts failed.
C5_DisconnectStopsAtFirstSuccess ==
    \A p \in Procs :
        dfn[p] = "disconnect" =>
            /\ dfirstok[p] # 0 =>
                /\ Finished(p, "disconnect")
                /\ dresult[p].kind = "return"
                /\ dattempt[p] = dfirstok[p]
            /\ Finished(p, "disconnect") /\ dresult[p].kind = "raise" =>
                /\ dattempt[p] = dretries[p]
                /\ dfirstok[p] = 0

\* ---- C6 -----------------------------------------------------------------
\* C6: a pipeline_eject that sees the pipeline's jobid set never sends a
\* "pipeline" request; the step in which it returns gives a failure reply
\* and leaves every pipeline as it was.
C6_EjectBusyRefused ==
    [][\A c \in Clients :
        (/\ cpc[c] = "status_done"
         /\ ccmd[c].op = "eject"
         /\ Saw(c)
         /\ Seen(c).jobid # None)
        => /\ cpc'[c] \in {"status_done", "done"}
           /\ creq'[c] = NoReq
           /\ Returns(c) =>
                /\ ~creply'[c].success
                /\ creply'[c].msg = "cannot eject running"
                /\ pips' = pips]_vars

\* an eject of a busy pipeline has returned its failure reply, and the
\* pipeline is still loaded, ready and busy
C6_Witness ==
    \E c \in Clients :
        /\ cpc[c] = "done"
        /\ ccmd[c].op = "eject"
        /\ creply[c].msg = "cannot eject running"
        /\ ~creply[c].success
        /\ pips[ccmd[c].pipeline] = Seen(c)
        /\ Seen(c).jobid # None

\* ---- C7 -----------------------------------------------------------------
\* C7: a pipeline_ready that sees the pipeline's jobid set returns a failure
\* reply, never a success reply.
C7_ReadyBusyRefused ==
    \A c \in Clients :
        (/\ cpc[c] = "done"
         /\ ccmd[c].op = "ready"
         /\ Saw(c)
         /\ Seen(c).jobid # None)
        => ~creply[c].success

\* ---- C8 -----------------------------------------------------------------
\* C8: a pipeline_load that does not find the pipeline in the status reply,
\* or finds it with a sampleid, never sends a "pipeline" request; the step in
\* which it returns gives a failure reply and leaves every pipeline as it was.
C8_LoadRefused ==
    [][\A c \in Clients :
        (/\ cpc[c] = "status_done"
         /\ ccmd[c].op = "load"
         /\ cstat[c].success
         /\ \/ ccmd[c].pipeline \notin DOMAIN cstat[c].data
            \/ Seen(c).sampleid # None)
        => /\ cpc'[c] \in {"status_done", "done"}
           /\ creq'[c] = NoReq
           /\ Returns(c) =>
                /\ ~creply'[c].success
                /\ creply'[c].msg = IF ccmd[c].pipeline \in DOMAIN cstat[c].data
                                    THEN "not empty" ELSE "not found"
                /\ pips' = pips]_vars

\* one client's load of an unknown pipeline and the other client's load of an
\* occupied pipeline have both returned their failure replies
C8_Witness ==
    \E c, d \in Clients :
        /\ cpc[c] = "done" /\ ccmd[c].op = "load"
        /\ creply[c].msg = "not found" /\ ~creply[c].success
        /\ ccmd[c].pipeline \notin PipNames
        /\ cpc[d] = "done" /\ ccmd[d].op = "load"
        /\ creply[d].msg = "not empty" /\ ~creply[d].success
        /\ pips[ccmd[d].pipeline].sampleid # None

\* ---- C9 -----------------------------------------------------------------
\* client c's pipeline_eject returns in this step, on a pipeline that has no
\* jobid and has not changed since c's status reply
EjectReturnsUndisturbed(c) ==
    /\ Returns(c)
    /\ ccmd[c].op = "eject"
    /\ Saw(c)
    /\ Seen(c) = pips[ccmd[c].pipeline]
    /\ Seen(c).jobid = None

\* C9: an eject of a pipeline without jobid returns success and leaves the
\* pipeline with sampleid empty and ready false, whether it was loaded or
\* already empty; an eject of an already empty pipeline changes nothing.
C9_EjectIdempotent ==
    [][\A c \in Clients :
        EjectReturnsUndisturbed(c) =>
            /\ creply'[c].success
            /\ pips'[ccmd[c].pipeline] = EmptyPipeline
            /\ Seen(c).sampleid = None => pips' = pips]_vars

OkCalls(p, name) ==
    SelectSeq(dlog[p], LAMBDA e : e.api = name /\ e.ok)

\* C11: start_job returns a start timestamp only if, during that call, the
\* connection succeeded, every technique of the payload was loaded and
\* StartChannel was invoked.
C11_TimestampOnlyAfterStart ==
    \A p \in Procs :
        Finished(p, "start_job") /\ dresult[p].kind = "return" =>
            /\ Len(OkCalls(p, "Connect")) > 0
            /\ Len(OkCalls(p, "LoadTechnique")) = dntechs[p]
            /\ Len(OkCalls(p, "StartChannel")) > 0

\* ---- C12 ----------------------------------------------------------------
\* the positions in p's log of the calls of api `name`
CallsAt(p, name) == {i \in 1..Len(dlog[p]) : dlog[p][i].api = name}

\* C12: for a payload of n >= 1 techniques, a finished start_job has called
\* LoadTechnique exactly n times, the i-th call with technique i, first = TRUE
\* only for i = 1 and last = TRUE only for i = n, and has called StartChannel
\* exactly once, after every LoadTechnique.
C12_LoadsInOrderThenStart ==
    \A p \in Procs :
        Finished(p, "start_job") =>
            LET n == dntechs[p]
                loads == SelectSeq(dlog[p], LAMBDA e : e.api = "LoadTechnique")
            IN  /\ Len(loads) = n
                /\ \A i \in 1..Len(loads) :
                       loads[i].args = <<i, i = 1, i = n>>
                /\ Cardinality(CallsAt(p, "StartChannel")) = 1
                /\ \A i \in CallsAt(p, "LoadTechnique"),
                      k \in CallsAt(p, "StartChannel") : i < k

\* ---- C14 ----------------------------------------------------------------
\* C14: a get_status or get_data call that did not obtain a connection ends
\* with the connection error; it does not go on to read device_info,
\* channel_info or data.
C14_FailedConnectSurfaces ==
    \A p \in Procs :
        /\ Finished(p, "get_status") \/ Finished(p, "get_data")
        /\ Len(OkCalls(p, "Connect")) = 0
        => /\ dresult[p].kind = "raise"
           /\ dresult[p].exc \in {"ConnectionError", "Exception"}

\* ---- C15 ----------------------------------------------------------------
\* client c is inside a command, waiting for a reply of the daemon
Waiting(c) == cpc[c] \in {"status_sent", "pipeline_sent"}

\* some step ends the wait of client c: the daemon's reply or the timeout
WaitEnds(c) ==
    DaemonStatus(c) \/ StatusTimeout(c) \/ DaemonPipeline(c) \/ DaemonStop(c)

\* C15: a command that waits for a reply can always go on, by the daemon's
\* reply or by the timeout, also after the daemon has stopped answering: no
\* command is left waiting with nothing that ends the wait.
C15_WaitAlwaysEnds ==
    \A c \in Clients : Waiting(c) => ENABLED WaitEnds(c)

\* ---- C16 ----------------------------------------------------------------
\* the settings name a device `name`
Resolves(config, name) ==
    \E i \in DOMAIN config.devices : config.devices[i].name = name

\* the device the settings call `name`
DeviceNamed(config, name) ==
    config.devices[CHOOSE i \in DOMAIN config.devices : config.devices[i].name = name]

\* every device entry of every pipeline names a device of the settings
AllResolve(config) ==
    \A k \in DOMAIN config.pipelines :
        \A b \in DOMAIN config.pipelines[k].devices :
            Resolves(config, config.pipelines[k].devices[b].name)

\* the number of pipelines entry k of the settings stands for: one per
\* channel of its device for a wildcard entry, one otherwise
Emitted(config, k) ==
    LET pip == config.pipelines[k]
    IN  IF HasWildcard(pip.name)
            THEN Len(DeviceNamed(config, pip.devices[1].name).channels)
        ELSE 1

\* the number of pipelines the entries before entry k stand for
RECURSIVE OffsetOf(_, _)
OffsetOf(config, k) ==
    IF k = 1 THEN 0 ELSE OffsetOf(config, k - 1) + Emitted(config, k - 1)

\* the name with every "*" replaced by the channel c written in decimal
NameFor(name, c) ==
    [i \in DOMAIN name |-> IF name[i] = "*" THEN ToString(c) ELSE name[i]]

\* get_pipelines has been called on the settings
Called == cres.kind # "none"

\* C16: a wildcard entry naming one device with channel list C stands for
\* exactly |C| pipelines, the i-th named by replacing "*" with C[i] and bound
\* to that device on channel C[i]; settings with a wildcard entry that names
\* no device or more than one are rejected.
C16_WildcardExpansion ==
    /\ Called /\ (\E k \in DOMAIN cfg.pipelines :
                     /\ HasWildcard(cfg.pipelines[k].name)
                     /\ Len(cfg.pipelines[k].devices) # 1)
           => cres.kind = "raise"
    /\ Called /\ Len(cfg.pipelines) = 1
              /\ HasWildcard(cfg.pipelines[1].name)
              /\ Len(cfg.pipelines[1].devices) = 1
              /\ AllResolve(cfg)
           => cres.kind = "return"
    /\ cres.kind = "return" /\ AllResolve(cfg) =>
           /\ Len(cres.value) = OffsetOf(cfg, Len(cfg.pipelines) + 1)
           /\ \A k \in DOMAIN cfg.pipelines :
                  HasWildcard(cfg.pipelines[k].name) =>
                      LET pip == cfg.pipelines[k]
                          d == DeviceNamed(cfg, pip.devices[1].name)
                          off == OffsetOf(cfg, k)
                      IN  \A i \in 1..Len(d.channels) :
                              cres.value[off + i] =
                                  [name |-> NameFor(pip.name, d.channels[i]),
                                   devices |-> <<[name |-> d.name,
                                                  tag |-> pip.devices[1].tag,
                                                  channel |-> d.channels[i]]>>]

\* a wildcard entry on a device with two channels has been expanded
C16_Witness ==
    /\ cres.kind = "return"
    /\ AllResolve(cfg)
    /\ \E k \in DOMAIN cfg.pipelines :
           /\ HasWildcard(cfg.pipelines[k].name)
           /\ Len(DeviceNamed(cfg, cfg.pipelines[k].devices[1].name).channels) = 2
    /\ Len(cres.value) = 2

\* ---- C17 ----------------------------------------------------------------
\* device entry b of settings entry k has a channel of the device it names
ChannelOnDevice(config, k, b) ==
    LET ppars == config.pipelines[k].devices[b]
    IN  /\ "channel" \in DOMAIN ppars
        /\ \E i \in DOMAIN DeviceNamed(config, ppars.name).channels :
               DeviceNamed(config, ppars.name).channels[i] = ppars.channel

\* C17: an entry without wildcard stands for exactly one pipeline, each of
\* whose device bindings carries the channel the entry gives, a channel of
\* that device; settings with an entry without wildcard one of whose device
\* entries gives no channel, or a channel its device does not have, are
\* rejected.
C17_ExplicitBinding ==
    /\ Called /\ (\E k \in DOMAIN cfg.pipelines :
                     /\ ~HasWildcard(cfg.pipelines[k].name)
                     /\ \E b \in DOMAIN cfg.pipelines[k].devices :
                            LET ppars == cfg.pipelines[k].devices[b]
                            IN  \/ "channel" \notin DOMAIN ppars
                                \/ /\ Resolves(cfg, ppars.name)
                                   /\ ~ChannelOnDevice(cfg, k, b))
           => cres.kind = "raise"
    /\ Called /\ Len(cfg.pipelines) = 1
              /\ ~HasWildcard(cfg.pipelines[1].name)
              /\ AllResolve(cfg)
              /\ (\A b \in DOMAIN cfg.pipelines[1].devices : ChannelOnDevice(cfg, 1, b))
           => cres.kind = "return"
    /\ cres.kind = "return" /\ AllResolve(cfg) =>
           \A k \in DOMAIN cfg.pipelines :
               ~HasWildcard(cfg.pipelines[k].name) =>
                   LET pip == cfg.pipelines[k]
                       off == OffsetOf(cfg, k)
                   IN  /\ Emitted(cfg, k) = 1
                       /\ Len(cres.value) >= off + 1
                       /\ cres.value[off + 1] =
                              [name |-> pip.name,
                               devices |-> [b \in DOMAIN pip.devices |->
                                   [name |-> pip.devices[b].name,
                                    tag |-> pip.devices[b].tag,
                                    channel |-> pip.devices[b].channel]]]
                       /\ \A b \in DOMAIN pip.devices : ChannelOnDevice(cfg, k, b)
    /\ cres.kind = "return" =>
           \A i \in DOMAIN cres.value :
               \A b \in DOMAIN cres.value[i].devices :
                   LET dev == cres.value[i].devices[b]
                   IN  /\ "channel" \in DOMAIN dev
                       /\ Resolves(cfg, dev.name)
                       /\ \E n \in DOMAIN DeviceNamed(cfg, dev.name).channels :
                              DeviceNamed(cfg, dev.name).channels[n] = dev.channel

\* an entry without wildcard binding two devices has been accepted
C17_Witness ==
    /\ cres.kind = "return"
    /\ AllResolve(cfg)
    /\ \E k \in DOMAIN cfg.pipelines :
           /\ ~HasWildcard(cfg.pipelines[k].name)
           /\ Len(cfg.pipelines[k].devices) = 2
           /\ cfg.pipelines[k].devices[1].name # cfg.pipelines[k].devices[2].name

\* ---- C18 ----------------------------------------------------------------
\* pipeline p is given job j in this step
Assigned(p, j) == pips[p].jobid = None /\ pips'[p].jobid = j

\* job j is queued and pipeline p satisfies its requirements
Candidate(p, j) == jstat[j] = "queued" /\ satisfies(p, j)

\* C18: a job is assigned only to a ready, loaded, unoccupied pipeline, and
\* the job assigned to pipeline p is the earliest-submitted queued job whose
\* requirements p satisfies: no job submitted before it is such a job.
C18_DispatchFifo ==
    [][\A p \in DOMAIN pips : \A j \in DOMAIN jstat :
           Assigned(p, j) =>
               /\ eligible(pips[p])
               /\ Candidate(p, j)
               /\ \A i, k \in DOMAIN queue :
                      queue[k] = j /\ i < k => ~Candidate(p, queue[i])]_vars

\* p1 runs j1, submitted after j2, which p1 does not satisfy, and before
\* j3, which p1 satisfies and which is still queued
C18_Witness ==
    /\ queue = <<"j2", "j1", "j3">>
    /\ pips["p1"].jobid = "j1"
    /\ jstat["j2"] = "queued"
    /\ jstat["j3"] = "queued"

\* ---- C19 ----------------------------------------------------------------
\* the pipelines whose jobid is job j
Holders(j) == {p \in DOMAIN pips : pips[p].jobid = j}

\* C19: no job is held by two pipelines, the jobid of a pipeline is empty or
\* one job, and a job is running exactly when one pipeline's jobid is that
\* job.
C19_OneJobOnePipeline ==
    /\ \A p \in DOMAIN pips : pips[p].jobid \in DOMAIN jstat \cup {None}
    /\ \A j \in DOMAIN jstat :
           /\ Cardinality(Holders(j)) <= 1
           /\ jstat[j] = "running" <=> Cardinality(Holders(j)) = 1

\* both pipelines run a job while a third job waits
C19_Witness ==
    /\ "p2" \in DOMAIN pips
    /\ pips["p1"].jobid # None
    /\ pips["p2"].jobid # None
    /\ \E j \in DOMAIN jstat : jstat[j] = "queued"

\* ---- C20 ----------------------------------------------------------------
\* C20: a cancel request succeeds exactly when the job is queued, and then
\* the job becomes cancelled; on a running job, and on a job cancelled
\* before, it returns ConflictError and leaves the job as it is; it never
\* touches a pipeline.
C20_CancelOnlyQueued ==
    [][\A j \in DOMAIN jstat :
           Cancel(j) =>
               /\ qres'.job = j
               /\ qres'.err = None <=> jstat[j] = "queued"
               /\ qres'.err = None => jstat' = [jstat EXCEPT ![j] = "cancelled"]
               /\ qres'.err # None => jstat' = jstat
               /\ jstat[j] \in {"running", "cancelled"} => qres'.err = "ConflictError"
               /\ pips' = pips]_vars

\* the last cancel request, on a job that is running, returned ConflictError
C20_Witness ==
    \E j \in DOMAIN jstat :
        /\ qres = [job |-> j, err |-> "ConflictError"]
        /\ jstat[j] = "running"
        /\ Holders(j) # {}

\* ---- C21 ----------------------------------------------------------------
\* the job statuses without further transitions
Terminal == {"complete", "errored", "cancelled"}

\* pipeline p is eligible and some queued job matches it
Dispatchable(p) == eligible(pips[p]) /\ candidates(p) # <<>>

C22_LockReleased ==
    \A p \in Procs :
        /\ dpc[p] \in {"idle", "loop", "sleep"} => lock # p
        /\ dresult[p] # NoResult => lock # p
        /\ lock = p => dpc[p] = "locked"

\* one process sleeps after its api call failed under the lock while the
\* other has returned from a call made under the lock
C22_Witness ==
    \E p \in Procs : \E q \in Procs \ {p} :
        /\ dpc[p] = "sleep" /\ dcalls[p] > 0 /\ ~dlastok[p]
        /\ dpc[q] = "idle" /\ dcalls[q] > 0 /\ dresult[q] # NoResult
        /\ lock = None

\* ---- C23 ----------------------------------------------------------------
\* client c's eject request is in flight: its status reply showed the
\* pipeline loaded and free, and the scheduler has dispatched a job to the
\* pipeline since
EjectRaced(c) ==
    /\ cpc[c] = "pipeline_sent"
    /\ ccmd[c].op = "eject"
    /\ creq[c].pipeline \in DOMAIN pips
    /\ Seen(c).jobid = None
    /\ pips[creq[c].pipeline].jobid # None

\* C23: when the scheduler dispatches a job to a pipeline between an eject
\* command's status query and its request, serving the request clears
\* neither sampleid nor ready: the pipeline is left as it was, busy, loaded
\* and ready.
C23_EjectRaceKeepsBusyPipeline ==
    [][\A c \in Clients :
        EjectRaced(c) /\ Returns(c) =>
            /\ pips' = pips
            /\ pips'[creq[c].pipeline].sampleid # None
            /\ pips'[creq[c].pipeline].ready
            /\ pips'[creq[c].pipeline].jobid # None]_vars

\* an eject command that saw the pipeline free has returned with the
\* daemon's answer showing the pipeline busy, and the pipeline still holds
\* the sample the command saw
C23_Witness ==
    \E c \in Clients :
        /\ cpc[c] = "done"
        /\ ccmd[c].op = "eject"
        /\ Saw(c)
        /\ Seen(c).jobid = None
        /\ creply[c].msg = "ejected"
        /\ creply[c].data.jobid # None
        /\ pips[ccmd[c].pipeline].sampleid = Seen(c).sampleid
        /\ pips[ccmd[c].pipeline].ready

\* ---- C24 ----------------------------------------------------------------
\* C24: in every state reachable by load, eject and ready commands from an
\* empty, not-ready pipeline, a pipeline that is ready holds a sample.
C24_ReadyImpliesLoaded ==
    \A p \in PipNames : pips[p].ready => pips[p].sampleid # None

\* ---- C25 ----------------------------------------------------------------
\* C25: when get_pipelines returns, every device entry of the settings'
\* pipelines names a device of the device list, so that a settings file
\* with a dangling device name is rejected, and every binding of a returned
\* pipeline carries the device name its pipeline entry gives at that
\* position.
C25_BindingsBelongToNamedDevice ==
    cres.kind = "return" =>
        /\ AllResolve(cfg)
        /\ \A i \in DOMAIN cres.value :
               \A b \in DOMAIN cres.value[i].devices :
                   \E k \in DOMAIN cfg.pipelines :
                       /\ b \in DOMAIN cfg.pipelines[k].devices
                       /\ cfg.pipelines[k].devices[b].name =
                              cres.value[i].devices[b].name

TypeOKPipeline ==
    /\ \A p \in PipNames : pips[p].sampleid \in Samples \cup {None}
    /\ ncmds \in 0..MaxCmds
====
